---- MODULE Spec2Model ----
(***************************************************************************)
(* Model of the ai-chat-app repository: the Streamlit conversation surface *)
(* (app.py), the live completion client (azure_ai_client.py), the offline  *)
(* stand-in (demo_client.py) and the retrieval client (rag_service.py).    *)
(*                                                                         *)
(* Text is a sequence of tokens (strings); a token stands for one run of   *)
(* characters.  Substring tests are tests on tokens, str.lower() maps the  *)
(* upper-case tokens to their lower-case form, str.strip() drops the       *)
(* leading and trailing whitespace tokens.  A Python call either returns   *)
(* a value or raises: [kind |-> "return", ...] / [kind |-> "raise", ...].  *)
(* The remote services (embedding, search, chat completion) are the        *)
(* environment: their outcomes are inputs of the operators.                *)
(***************************************************************************)
EXTENDS Integers, Sequences, FiniteSets, TLC

VARIABLES
    config,         \* Config: process-wide settings, fixed after load
    messages,       \* st.session_state.messages
    azure_client,   \* st.session_state.azure_client: "unset" | "live" | "demo"
    demo_mode,      \* st.session_state.demo_mode: "unset" | "off" | "on"
    client_error,   \* st.session_state.client_error: [set, text]
    last,           \* what the most recent run of main() did
    probe           \* the most recent direct call of a component, its inputs and outcome

vars == <<config, messages, azure_client, demo_mode, client_error, last, probe>>

----------------------------------------------------------------------------
(* Bounds of the model *)

MaxTurns == 2       \* user turns of one session
MaxErrLen == 2      \* tokens of a raw error text
MaxLimit == 2       \* largest CONVERSATION_HISTORY_LIMIT
MaxHistory == 3     \* longest history handed to the completion client directly

----------------------------------------------------------------------------
(* Text *)

WS == " "

Min(a, b) == IF a < b THEN a ELSE b

Max(a, b) == IF a > b THEN a ELSE b

\* str.lower() on one token
LowerTok(t) ==
    CASE t = "TIMEOUT" -> "timeout"
      [] t = "Unauthorized" -> "unauthorized"
      [] t = "Not Found" -> "not found"
      [] t = "Rate Limit" -> "rate limit"
      [] t = "Hello" -> "hello"
      [] t = "Deploy" -> "deploy"
      [] OTHER -> t

Lower(text) == [i \in 1..Len(text) |-> LowerTok(text[i])]

\* the markers that occur inside one token as substrings
Markers(t) ==
    CASE t = "this" -> {"this", "hi"}
      [] t = "HTTP 401" -> {"HTTP 401", "401"}
      [] OTHER -> {t}

\* marker in text
Contains(text, marker) == \E i \in 1..Len(text) : marker \in Markers(text[i])

RECURSIVE LStrip(_)
LStrip(text) ==
    IF text # <<>> /\ Head(text) = WS THEN LStrip(Tail(text)) ELSE text

RECURSIVE RStrip(_)
RStrip(text) ==
    IF text # <<>> /\ text[Len(text)] = WS
    THEN RStrip(SubSeq(text, 1, Len(text) - 1))
    ELSE text

\* str.strip()
Strip(text) == RStrip(LStrip(text))

\* sep.join(parts)
RECURSIVE Join(_, _)
Join(sep, parts) ==
    IF parts = <<>> THEN <<>>
    ELSE IF Len(parts) = 1 THEN parts[1]
    ELSE parts[1] \o <<sep>> \o Join(sep, Tail(parts))

\* text[:n]
Prefix(text, n) == SubSeq(text, 1, Min(n, Len(text)))

Return(v) == [kind |-> "return", value |-> v]

Raise(e) == [kind |-> "raise", exc |-> e]

----------------------------------------------------------------------------
(* rag_service.py *)

\* A field value of a raw search hit: a string, a number or None.
StrV(s) == [t |-> "str", s |-> s, n |-> 0]

NumV(n) == [t |-> "num", s |-> <<>>, n |-> n]

NoneV == [t |-> "none", s |-> <<>>, n |-> 0]

\* Python truthiness of a field value
Truthy(v) ==
    CASE v.t = "str" -> v.s # <<>>
      [] v.t = "num" -> v.n # 0
      [] OTHER -> FALSE

\* str(value)
Str(v) ==
    CASE v.t = "str" -> v.s
      [] v.t = "num" -> <<"<num>">>
      [] OTHER -> <<"None">>

\* A raw hit is an ordered mapping: a sequence of [k, v] with distinct keys.
Has(hit, key) == \E i \in 1..Len(hit) : hit[i].k = key

Get(hit, key) == hit[CHOOSE i \in 1..Len(hit) : hit[i].k = key].v

HasTruthy(hit, key) == Has(hit, key) /\ Truthy(Get(hit, key))

content_fields == <<"content", "text", "body", "description", "summary">>

metadata_fields == <<"title", "source", "url", "filename", "category", "tags", "date">>

\* key.startswith('@'), over the keys raw hits carry
StartsWithAt(key) == key \in {"@search.score", "@search.reranker_score", "@search.captions"}

\* the "key: value" parts of the string-valued fields not starting with '@'
RECURSIVE TextParts(_)
TextParts(hit) ==
    IF hit = <<>> THEN <<>>
    ELSE (IF Head(hit).v.t = "str" /\ ~StartsWithAt(Head(hit).k)
          THEN << <<Head(hit).k, ": ">> \o Head(hit).v.s >>
          ELSE <<>>) \o TextParts(Tail(hit))

\* _extract_content without the sentinel: the empty join is handed back
_extract_content_NoSentinel(search_result) ==
    LET present == {i \in 1..Len(content_fields) : HasTruthy(search_result, content_fields[i])}
    IN  IF present # {}
        THEN Str(Get(search_result, content_fields[CHOOSE i \in present : \A j \in present : i <= j]))
        ELSE IF HasTruthy(search_result, "chunk")
        THEN Join(" | ",
                  (IF HasTruthy(search_result, "title")
                   THEN << <<"Title: ">> \o Str(Get(search_result, "title")) >>
                   ELSE <<>>)
                  \o << Str(Get(search_result, "chunk")) >>)
        ELSE Join(" | ", TextParts(search_result))

_extract_content(search_result) ==
    LET present == {i \in 1..Len(content_fields) : HasTruthy(search_result, content_fields[i])}
    IN  IF present # {}
        THEN Str(Get(search_result, content_fields[CHOOSE i \in present : \A j \in present : i <= j]))
        ELSE IF HasTruthy(search_result, "chunk")
        THEN Join(" | ",
                  (IF HasTruthy(search_result, "title")
                   THEN << <<"Title: ">> \o Str(Get(search_result, "title")) >>
                   ELSE <<>>)
                  \o << Str(Get(search_result, "chunk")) >>)
        ELSE IF TextParts(search_result) # <<>>
        THEN Join(" | ", TextParts(search_result))
        ELSE <<"No content available">>

\* the metadata mapping, as the ordered [k, v] pairs the code inserts
_extract_metadata(search_result) ==
    LET Pick(i) == IF HasTruthy(search_result, metadata_fields[i])
                   THEN << [k |-> metadata_fields[i], v |-> Get(search_result, metadata_fields[i])] >>
                   ELSE <<>>
    IN  Pick(1) \o Pick(2) \o Pick(3) \o Pick(4) \o Pick(5) \o Pick(6) \o Pick(7)
        \o (IF Has(search_result, "@search.score")
            THEN << [k |-> "search_score", v |-> Get(search_result, "@search.score")] >>
            ELSE <<>>)

\* the dict built for one hit; getattr(result, '@search.score', 0) reads an
\* attribute, never the mapping's key, so the score is the default
Shape(result) ==
    [content |-> _extract_content(result), score |-> 0, metadata |-> _extract_metadata(result)]

\* env.embed: "raise" | "empty" | "vector" (outcome of the embeddings call)
_get_query_embedding(env) ==
    IF env.embed = "vector" THEN <<1>> ELSE <<>>

HybridParams(top_k) == [query_type |-> "semantic", vector |-> TRUE, top |-> top_k]

SemanticParams(top_k) == [query_type |-> "semantic", vector |-> FALSE, top |-> top_k]

SimpleParams(top_k) == [query_type |-> "simple", vector |-> FALSE, top |-> top_k]

\* HybridSearch with the plain search issued once more after it failed
HybridSearch_RetrySimple(top_k, env) ==
    LET first == IF _get_query_embedding(env) # <<>> THEN HybridParams(top_k) ELSE SemanticParams(top_k)
    IN  IF env.search[1].ok
        THEN [calls |-> <<first>>, ok |-> TRUE, results |-> env.search[1].hits]
        ELSE IF env.search[2].ok
        THEN [calls |-> <<first, SemanticParams(top_k)>>, ok |-> TRUE, results |-> env.search[2].hits]
        ELSE [calls |-> <<first, SemanticParams(top_k), SimpleParams(top_k), SimpleParams(top_k)>>,
              ok |-> env.search[3].ok, results |-> env.search[3].hits]

\* HybridSearch going from the first call straight to the plain search
HybridSearch_SkipSemantic(top_k, env) ==
    LET first == IF _get_query_embedding(env) # <<>> THEN HybridParams(top_k) ELSE SemanticParams(top_k)
    IN  IF env.search[1].ok
        THEN [calls |-> <<first>>, ok |-> TRUE, results |-> env.search[1].hits]
        ELSE [calls |-> <<first, SimpleParams(top_k)>>,
              ok |-> env.search[2].ok, results |-> env.search[2].hits]

\* the tries of search_documents in "hybrid" mode: the search calls issued, in
\* order, and the raw results (or the exception left for the outer handler)
HybridSearch(top_k, env) ==
    LET query_embedding == _get_query_embedding(env)
        first == IF query_embedding # <<>> THEN HybridParams(top_k) ELSE SemanticParams(top_k)
    IN  IF env.search[1].ok
        THEN [calls |-> <<first>>, ok |-> TRUE, results |-> env.search[1].hits]
        ELSE IF env.search[2].ok
        THEN [calls |-> <<first, SemanticParams(top_k)>>, ok |-> TRUE, results |-> env.search[2].hits]
        ELSE IF env.search[3].ok
        THEN [calls |-> <<first, SemanticParams(top_k), SimpleParams(top_k)>>,
              ok |-> TRUE, results |-> env.search[3].hits]
        ELSE [calls |-> <<first, SemanticParams(top_k), SimpleParams(top_k)>>,
              ok |-> FALSE, results |-> <<>>]

\* SemanticSearch without its fallback
SemanticSearch_NoFallback(top_k, env) ==
    [calls |-> <<SemanticParams(top_k)>>, ok |-> env.search[1].ok, results |-> env.search[1].hits]

SemanticSearch(top_k, env) ==
    IF env.search[1].ok
    THEN [calls |-> <<SemanticParams(top_k)>>, ok |-> TRUE, results |-> env.search[1].hits]
    ELSE IF env.search[2].ok
    THEN [calls |-> <<SemanticParams(top_k), SimpleParams(top_k)>>,
          ok |-> TRUE, results |-> env.search[2].hits]
    ELSE [calls |-> <<SemanticParams(top_k), SimpleParams(top_k)>>, ok |-> FALSE, results |-> <<>>]

SimpleSearch(top_k, env) ==
    IF env.search[1].ok
    THEN [calls |-> <<SimpleParams(top_k)>>, ok |-> TRUE, results |-> env.search[1].hits]
    ELSE [calls |-> <<SimpleParams(top_k)>>, ok |-> FALSE, results |-> <<>>]

\* SearchGuard without the outer handler: the exception escapes
SearchGuard_Propagate(tried, env) ==
    IF tried.ok /\ env.iter
    THEN Return([i \in 1..Len(tried.results) |-> Shape(tried.results[i])])
    ELSE Raise(<<"search failed">>)

\* the outer handler of search_documents: any exception gives []
SearchGuard(tried, env) ==
    IF tried.ok /\ env.iter
    THEN Return([i \in 1..Len(tried.results) |-> Shape(tried.results[i])])
    ELSE Return(<<>>)

\* rag = [search_client: BOOLEAN, config]; top_k = 0 stands for None (both falsy).
\* out: the call's outcome; calls: the search calls issued; embeds: embedding calls
Searched(type, tried, env) ==
    [out |-> SearchGuard(tried, env),
     calls |-> tried.calls,
     embeds |-> IF type = "hybrid" THEN 1 ELSE 0]

\* the tries of the configured search type with top_k results asked for
Tried(type, top_k, env) ==
    CASE type = "hybrid" -> HybridSearch(top_k, env)
      [] type = "semantic" -> SemanticSearch(top_k, env)
      [] OTHER -> SimpleSearch(top_k, env)

search_documents(rag, query, top_k, env) ==
    IF ~rag.search_client
    THEN [out |-> Return(<<>>), calls |-> <<>>, embeds |-> 0]
    ELSE Searched(rag.config.RAG_SEARCH_TYPE,
                  Tried(rag.config.RAG_SEARCH_TYPE,
                        IF top_k # 0 THEN top_k ELSE rag.config.RAG_TOP_K, env),
                  env)

is_available(rag) == rag.search_client /\ rag.config.ENABLE_RAG

\* RAGService(): the constructor's result for a configuration it accepts
RAGService(cfg) == [search_client |-> cfg.ENABLE_RAG, config |-> cfg]

ContentLimit == 2000

\* dict.get(key, default) on the ordered metadata mapping
GetOr(mapping, key, default) == IF Has(mapping, key) THEN Get(mapping, key) ELSE default

\* ContextPart with the whole content, whatever its length
ContextPart_Untruncated(doc, i) ==
    <<"[Source ", ToString(i), ": ">>
    \o Str(GetOr(doc.metadata, "source", StrV(<<"Document ", ToString(i)>>)))
    \o <<"]", "\n">> \o doc.content \o <<"\n">>

\* the labelled block of the i-th document
ContextPart(doc, i) ==
    <<"[Source ", ToString(i), ": ">>
    \o Str(GetOr(doc.metadata, "source", StrV(<<"Document ", ToString(i)>>)))
    \o <<"]", "\n">> \o Prefix(doc.content, ContentLimit) \o <<"\n">>

\* create_context_prompt handing back the bare query for no documents
create_context_prompt_Bare(documents, user_query) ==
    IF documents = <<>>
    THEN user_query
    ELSE <<"You are a helpful AI assistant. Use the following context ...", "CONTEXT:", "\n">>
         \o Join("\n", [i \in 1..Len(documents) |-> ContextPart(documents[i], i)])
         \o <<"USER QUESTION: ">> \o user_query
         \o <<"Instructions: ...">>

create_context_prompt(documents, user_query) ==
    IF documents = <<>>
    THEN <<"User query: ">> \o user_query
    ELSE LET context_parts == [i \in 1..Len(documents) |-> ContextPart(documents[i], i)]
             context == Join("\n", context_parts)
         IN  <<"You are a helpful AI assistant. Use the following context ...", "CONTEXT:", "\n">>
             \o context
             \o <<"USER QUESTION: ">> \o user_query
             \o <<"Instructions: ...">>

----------------------------------------------------------------------------
(* azure_ai_client.py *)

\* AzureAIClient(): the constructor's result for a configuration it accepts
AzureAIClient(cfg) == [config |-> cfg, rag_service |-> RAGService(cfg)]

\* seq[start:] with Python's rule for a negative start; note -0 = 0
SliceFrom(seq, start) ==
    LET from == IF start < 0 THEN Max(Len(seq) + start, 0) ELSE Min(start, Len(seq))
    IN  SubSeq(seq, from + 1, Len(seq))

SystemMessage ==
    [role |-> "system",
     content |-> <<"You are a helpful AI assistant. Provide clear, accurate, and helpful responses.">>]

_prepare_messages(cfg, message, conversation_history) ==
    LET recent_history == SliceFrom(conversation_history, 0 - cfg.CONVERSATION_HISTORY_LIMIT)
    IN  <<SystemMessage>> \o recent_history \o <<[role |-> "user", content |-> message]>>

\* Enhanced with the prompt built whatever the search returned
Enhanced_AlwaysWrap(found, message) ==
    [search |-> <<found>>,
     text |-> IF found.out.kind = "raise" THEN message
              ELSE create_context_prompt(found.out.value, message)]

\* found: the search_documents call made; text: the message to send
Enhanced(found, message) ==
    [search |-> <<found>>,
     text |-> IF found.out.kind = "raise" THEN message
              ELSE IF found.out.value # <<>>
              THEN create_context_prompt(found.out.value, message)
              ELSE message]

_enhance_with_rag(client, message, env) ==
    Enhanced(search_documents(client.rag_service, message, 0, env.rag), message)

AuthFailed == <<"Authentication failed. Please check your API key.">>

DeploymentNotFound(cfg) ==
    <<"Model deployment '", cfg.AZURE_OPENAI_DEPLOYMENT, "' not found. Please verify your deployment name.">>

RateLimited == <<"Rate limit exceeded. Please wait and try again.">>

TimedOut == <<"Request timed out. Please try again.">>

\* Classify with the rate-limit test moved before the not-found test
Classify_RateLimitFirst(cfg, error_msg) ==
    IF Contains(error_msg, "401") \/ Contains(Lower(error_msg), "unauthorized")
    THEN AuthFailed
    ELSE IF Contains(error_msg, "429") \/ Contains(Lower(error_msg), "rate limit")
    THEN RateLimited
    ELSE IF Contains(error_msg, "404") \/ Contains(Lower(error_msg), "not found")
    THEN DeploymentNotFound(cfg)
    ELSE IF Contains(Lower(error_msg), "timeout")
    THEN TimedOut
    ELSE error_msg

\* the user-friendly error message for the raw text of an exception
Classify(cfg, error_msg) ==
    IF Contains(error_msg, "401") \/ Contains(Lower(error_msg), "unauthorized")
    THEN AuthFailed
    ELSE IF Contains(error_msg, "404") \/ Contains(Lower(error_msg), "not found")
    THEN DeploymentNotFound(cfg)
    ELSE IF Contains(error_msg, "429") \/ Contains(Lower(error_msg), "rate limit")
    THEN RateLimited
    ELSE IF Contains(Lower(error_msg), "timeout")
    THEN TimedOut
    ELSE error_msg

ApologyPrefix == "I apologize, but I encountered an error: "

\* Caught without the handler: the exception escapes send_message
Caught_Reraise(cfg, attempt) == attempt

\* the handler of send_message: the attempt's exception becomes a result;
\* Failure is the result built for the classified message
Failure(error_msg) ==
    [content |-> <<ApologyPrefix>> \o error_msg, success |-> FALSE, error |-> error_msg]

Caught(cfg, attempt) ==
    IF attempt.kind = "raise"
    THEN Return(Failure(Classify(cfg, attempt.exc)))
    ELSE attempt

NoAnswer == <<"I apologize, but I couldn't generate a response.">>

\* the chat-completions call and the reading of its response
\* env.completion: [kind |-> "raise", text] or
\*                 [kind |-> "response", choices, content: [none, text], usage, model]
Completed(c) ==
    IF c.kind = "raise" THEN Raise(c.text)
    ELSE IF c.choices = 0 THEN Raise(<<"list index out of range">>)
    ELSE Return([content |-> IF ~c.content.none /\ c.content.text # <<>>
                             THEN Strip(c.content.text) ELSE NoAnswer,
                 model |-> c.model,
                 usage |-> IF c.usage
                           THEN [prompt_tokens |-> 7, completion_tokens |-> 5, total_tokens |-> 12]
                           ELSE [prompt_tokens |-> 0, completion_tokens |-> 0, total_tokens |-> 0],
                 success |-> TRUE])

Complete(env) == Completed(env.completion)

\* Attempt with the request submitted once more after it failed
Attempt_Resubmit(client, enhanced, conversation_history, env) ==
    [out |-> Caught(client.config, Complete(env)),
     search |-> enhanced.search,
     submitted |->
        IF Complete(env).kind = "raise"
        THEN <<_prepare_messages(client.config, enhanced.text, conversation_history),
               _prepare_messages(client.config, enhanced.text, conversation_history)>>
        ELSE <<_prepare_messages(client.config, enhanced.text, conversation_history)>>]

\* out: the call's outcome; search: the search_documents calls made;
\* submitted: the message sequences submitted to the hosted model;
\* Attempt is the try block run with the (possibly enhanced) message
Attempt(client, enhanced, conversation_history, env) ==
    [out |-> Caught(client.config, Complete(env)),
     search |-> enhanced.search,
     submitted |-> <<_prepare_messages(client.config, enhanced.text, conversation_history)>>]

send_message(client, message, conversation_history, env) ==
    IF message = <<>> \/ Strip(message) = <<>>
    THEN [out |-> Raise(<<"Message cannot be empty">>), search |-> <<>>, submitted |-> <<>>]
    ELSE Attempt(client,
                 IF is_available(client.rag_service)
                 THEN _enhance_with_rag(client, message, env)
                 ELSE [search |-> <<>>, text |-> message],
                 conversation_history, env)

----------------------------------------------------------------------------
(* demo_client.py *)

demo_responses ==
    <<"Hello! I'm a demo AI assistant. ...",
      "This is a simulated response! ...",
      "Great question! I'm currently in demo mode. ...",
      "I understand you're testing the chat interface. ...",
      "This chat interface is working perfectly! ...">>

LongMessage == 50

\* the canned reply; choice is the index random.choice draws
DemoResponse(message, choice) ==
    IF Contains(Lower(message), "hello") \/ Contains(Lower(message), "hi")
    THEN <<"Hello! ", "I'm your demo AI assistant. Deploy a model in Azure AI Foundry to unlock real AI conversations!">>
    ELSE IF Contains(Lower(message), "deploy") \/ Contains(Lower(message), "model")
    THEN <<"To deploy a model: ", "Go to ai.azure.com", " ...">>
    ELSE IF Contains(Lower(message), "test")
    THEN <<"Test successful! ...">>
    ELSE IF Len(message) > LongMessage
    THEN <<"I can see you're writing detailed messages! ...">>
    ELSE <<demo_responses[choice]>>

\* DemoResult counting the whole content instead of the canned reply
DemoResult_CountsContent(message, response) ==
    [content |-> <<"DEMO MODE: ">> \o response \o <<"Next Step: ...">>,
     model |-> "demo-model",
     usage |-> [total_tokens |-> Len(message) + Len(<<"DEMO MODE: ">> \o response \o <<"Next Step: ...">>)],
     success |-> TRUE]

\* DemoAzureAIClient.send_message
DemoResult(message, response) ==
    [content |-> <<"DEMO MODE: ">> \o response \o <<"Next Step: ...">>,
     model |-> "demo-model",
     usage |-> [total_tokens |-> Len(message) + Len(response)],
     success |-> TRUE]

demo_send_message(message, conversation_history, choice) ==
    Return(DemoResult(message, DemoResponse(message, choice)))

----------------------------------------------------------------------------
(* app.py *)

\* get_conversation_history
get_conversation_history(msgs) ==
    [i \in 1..Len(msgs) |-> [role |-> msgs[i].role, content |-> msgs[i].content]]

\* the record of one send_message call on the offline stand-in
DemoCall(message, history, choice) ==
    [message |-> message, history |-> history,
     out |-> demo_send_message(message, history, choice)]

\* Fallback that answers with the apology and leaves the session as it is
Fallback_NoSwitch(client, mode, e, user_message, history, env) ==
    [reply |-> <<ApologyPrefix>> \o e, azure_client |-> client, demo_mode |-> mode, demo |-> <<>>]

\* the handler of send_message_to_ai for the exception text e; Retried is
\* the outcome of its retry on the stand-in
Retried(retry, e) ==
    [reply |-> IF retry.out.kind = "return" THEN retry.out.value.content
               ELSE <<ApologyPrefix>> \o e,
     azure_client |-> "demo", demo_mode |-> "on", demo |-> <<retry>>]

Fallback(client, mode, e, user_message, history, env) ==
    IF mode # "on"
    THEN Retried(DemoCall(user_message, history, env.choice), e)
    ELSE [reply |-> <<ApologyPrefix>> \o e, azure_client |-> client, demo_mode |-> mode,
          demo |-> <<>>]

\* the exception text send_message_to_ai's try block ends with
TurnError(call) ==
    IF call.out.kind = "raise" THEN call.out.exc
    ELSE <<"AI service error: ">> \o call.out.value.error

Fell(call, fb) ==
    [reply |-> fb.reply, azure_client |-> fb.azure_client, demo_mode |-> fb.demo_mode,
     live |-> <<call>>, demo |-> fb.demo]

\* the turn on the live client, call being its send_message call
LiveTurn(client, mode, call, env) ==
    IF call.out.kind = "return" /\ call.out.value.success
    THEN [reply |-> call.out.value.content, azure_client |-> client,
          demo_mode |-> mode, live |-> <<call>>, demo |-> <<>>]
    ELSE Fell(call, Fallback(client, mode, TurnError(call), call.message, call.history, env))

\* the turn on the stand-in
DemoTurn(client, mode, call) ==
    [reply |-> call.out.value.content, azure_client |-> client,
     demo_mode |-> mode, live |-> <<>>, demo |-> <<call>>]

\* reply: the text returned; live, demo: the send_message calls made on the
\* live client and on the stand-in; azure_client, demo_mode: the session after
send_message_to_ai(client, mode, msgs, user_message, env) ==
    IF client = "live"
    THEN LiveTurn(client, mode,
                  [message |-> user_message, history |-> get_conversation_history(msgs)]
                  @@ send_message(AzureAIClient(config), user_message,
                                  get_conversation_history(msgs), env.client),
                  env)
    ELSE DemoTurn(client, mode,
                  DemoCall(user_message, get_conversation_history(msgs), env.choice))

NoTurn == [input |-> <<>>, reply |-> <<>>, live |-> <<>>, demo |-> <<>>]

Run(what, chat_input, turn) == [what |-> what, chat_input |-> chat_input, turn |-> turn]

----------------------------------------------------------------------------
(* The environment: configurations, raw hits and outcomes of remote calls *)

DefaultTopK == 5

Configs ==
    [ENABLE_RAG : BOOLEAN,
     RAG_TOP_K : {DefaultTopK},
     RAG_SEARCH_TYPE : {"hybrid", "semantic", "text", "vector"},
     CONVERSATION_HISTORY_LIMIT : 0..MaxLimit,
     AZURE_OPENAI_DEPLOYMENT : {"gpt-4o-mini"}]

HitDoc ==
    << [k |-> "content", v |-> StrV(<<"doc">>)],
       [k |-> "source", v |-> StrV(<<"manual.pdf">>)] >>

HitChunk ==
    << [k |-> "content", v |-> StrV(<<>>)],
       [k |-> "chunk", v |-> StrV(<<"chunk">>)],
       [k |-> "title", v |-> StrV(<<"Catalog">>)],
       [k |-> "@search.score", v |-> NumV(1)] >>

HitBare == << [k |-> "id", v |-> NumV(7)] >>

HitLists == {<<>>, <<HitDoc>>, <<HitChunk, HitBare>>}

\* further shapes of a raw hit: a later content field, a numeric content, a
\* chunk without title, string fields only (one empty, one starting with '@'),
\* an '@' string alone, no field at all
HitText ==
    << [k |-> "content", v |-> NoneV],
       [k |-> "text", v |-> StrV(<<"body text">>)],
       [k |-> "summary", v |-> StrV(<<"short">>)] >>

HitNumber == << [k |-> "content", v |-> NumV(5)], [k |-> "source", v |-> StrV(<<>>)] >>

HitChunkOnly ==
    << [k |-> "chunk", v |-> StrV(<<"chunk">>)], [k |-> "title", v |-> StrV(<<>>)] >>

HitFields ==
    << [k |-> "name", v |-> StrV(<<"widget">>)],
       [k |-> "@search.captions", v |-> StrV(<<"caption">>)],
       [k |-> "notes", v |-> StrV(<<>>)],
       [k |-> "id", v |-> NumV(7)] >>

HitAtOnly == << [k |-> "@search.captions", v |-> StrV(<<"caption">>)], [k |-> "content", v |-> NumV(0)] >>

RawHits ==
    {HitDoc, HitChunk, HitBare, HitText, HitNumber, HitChunkOnly, HitFields, HitAtOnly, <<>>}

\* a retrieved document whose content is one character longer than the limit
LongDoc ==
    [content |-> [i \in 1..(ContentLimit + 1) |-> "x"], score |-> 0,
     metadata |-> << [k |-> "title", v |-> StrV(<<"Long">>)] >>]

\* the document lists create_context_prompt is called with
DocLists ==
    {<<>>, <<Shape(HitDoc)>>, <<Shape(HitChunk), Shape(HitDoc), Shape(HitBare)>>,
     <<LongDoc, Shape(HitDoc)>>}

SearchOutcomes == [ok : {FALSE}, hits : {<<>>}] \cup [ok : {TRUE}, hits : HitLists]

\* embed: the embeddings call; search[i]: the i-th search call issued;
\* iter: whether iterating the result pages succeeds
SearchEnvs ==
    [embed : {"raise", "empty", "vector"},
     search : [1..3 -> SearchOutcomes],
     iter : BOOLEAN]

Queries == {<<"question">>, <<>>}

Failing == [ok |-> FALSE, hits |-> <<>>]

Found(hits) == [ok |-> TRUE, hits |-> hits]

\* the retrieval outcomes tried with the completion client: documents found at
\* the first tier, nothing found, every tier failing
ClientRagEnvs ==
    {[embed |-> "vector", search |-> <<Found(<<HitDoc>>), Failing, Failing>>, iter |-> TRUE],
     [embed |-> "vector", search |-> <<Found(<<>>), Failing, Failing>>, iter |-> TRUE],
     [embed |-> "raise", search |-> <<Failing, Failing, Failing>>, iter |-> TRUE]}

ErrTokens ==
    {"HTTP 401", "404", "429", "timeout", "TIMEOUT", "Unauthorized", "Not Found",
     "rate limit", "boom"}

\* raw exception texts, the empty text included
ErrTexts == UNION {[1..n -> ErrTokens] : n \in 0..MaxErrLen}

NoContent == [none |-> TRUE, text |-> <<>>]

Raised(text) ==
    [kind |-> "raise", text |-> text, choices |-> 0, content |-> NoContent,
     usage |-> FALSE, model |-> "none"]

Responses ==
    [kind : {"response"}, text : {<<>>}, choices : {0, 1},
     content : {NoContent, [none |-> FALSE, text |-> <<>>],
                [none |-> FALSE, text |-> <<WS, "answer", WS>>]},
     usage : BOOLEAN, model : {"gpt-4o-mini"}]

Completions == {Raised(t) : t \in ErrTexts} \cup Responses

ClientEnvs == [rag : ClientRagEnvs, completion : Completions]

\* message texts: empty, whitespace only, plain, padded
Messages == {<<>>, <<WS>>, <<"hello">>, <<WS, "question", WS>>}

Entries == [role : {"user", "assistant"}, content : {<<"hello">>, <<"answer">>}]

Histories == UNION {[1..n -> Entries] : n \in 0..MaxHistory}

\* what st.chat_input can hand over: non-empty texts, whitespace-only included
UserInputs == {<<WS>>, <<"hello">>, <<WS, "question">>}

\* the outcomes of one turn's remote calls
TurnEnvs ==
    [client : [rag : ClientRagEnvs,
               completion : {Raised(<<"boom">>), Raised(<<>>),
                             [kind |-> "response", text |-> <<>>, choices |-> 1,
                              content |-> [none |-> FALSE, text |-> <<"answer", WS>>],
                              usage |-> TRUE, model |-> "gpt-4o-mini"]}],
     choice : 1..Len(demo_responses)]

\* the texts AzureAIClient() can fail with
InitErrors == {<<"AZURE_OPENAI_API_KEY is required">>}

ClientHistories ==
    {<<>>, <<[role |-> "user", content |-> <<"hello">>],
             [role |-> "assistant", content |-> <<"answer">>]>>}

TopKs == {0, 1, 3}

\* the texts the offline stand-in is called with: each keyword, in either case
\* and inside a longer word, none of them, and one longer than LongMessage
DemoMessages ==
    {<<>>, <<"hello">>, <<"Hello", WS>>, <<"this">>, <<"Deploy">>, <<"model">>,
     <<"test">>, <<"question">>, [i \in 1..(LongMessage + 1) |-> "x"]}

----------------------------------------------------------------------------
(* State *)

NoRun == Run("none", FALSE, NoTurn)

NoProbe == [fn |-> "none"]

Fresh ==
    /\ messages = <<>>
    /\ azure_client = "unset"
    /\ demo_mode = "unset"
    /\ client_error = [set |-> FALSE, text |-> <<>>]
    /\ last = NoRun
    /\ probe = NoProbe

Init == config \in Configs /\ Fresh

session == <<messages, azure_client, demo_mode, client_error, last>>

\* a direct call of RAGService.search_documents
CallSearchDocuments ==
    /\ probe = NoProbe
    /\ \E rag \in {RAGService(config), [search_client |-> FALSE, config |-> config]},
          query \in Queries, top_k \in TopKs, env \in SearchEnvs :
        /\ probe' =[fn |-> "search_documents", rag |-> rag, query |-> query,
                     top_k |-> top_k, env |-> env,
                     res |-> search_documents(rag, query, top_k, env)]
        /\ UNCHANGED <<config, session>>

\* a direct call of RAGService._extract_content
CallExtractContent ==
    /\ probe = NoProbe
    /\ \E hit \in RawHits :
        /\ probe' = [fn |-> "_extract_content", hit |-> hit, res |-> _extract_content(hit)]
        /\ UNCHANGED <<config, session>>

\* a direct call of RAGService.create_context_prompt
CallCreateContextPrompt ==
    /\ probe = NoProbe
    /\ \E documents \in DocLists, user_query \in Queries :
        /\ probe' = [fn |-> "create_context_prompt", documents |-> documents,
                     user_query |-> user_query,
                     res |-> create_context_prompt(documents, user_query)]
        /\ UNCHANGED <<config, session>>

\* search_documents reads the search type and the default top_k only
InitSearch ==
    /\ config \in {c \in Configs : c.CONVERSATION_HISTORY_LIMIT = 0}
    /\ Fresh

NextSearch == CallSearchDocuments \/ CallExtractContent \/ CallCreateContextPrompt

SpecSearch == InitSearch /\ [][NextSearch]_vars

----------------------------------------------------------------------------
(* The session: runs of main() *)

\* initialize_session_state: ok tells whether AzureAIClient() succeeds
InitializedClient(ok) ==
    IF azure_client # "unset" THEN azure_client ELSE IF ok THEN "live" ELSE "demo"

InitializedMode(ok) ==
    IF azure_client # "unset" THEN demo_mode ELSE IF ok THEN "off" ELSE "on"

InitializedError(ok, e) ==
    IF azure_client # "unset" \/ ok THEN client_error ELSE [set |-> TRUE, text |-> e]

\* a run of main() with no widget event: the page is drawn; with client_error
\* set the run returns before the sidebar and the chat input are created
MainRender ==
    \E ok \in BOOLEAN, e \in InitErrors :
        /\ azure_client' = InitializedClient(ok)
        /\ demo_mode' = InitializedMode(ok)
        /\ client_error' = InitializedError(ok, e)
        /\ last' = Run(IF client_error'.set THEN "error_page" ELSE "page",
                       ~client_error'.set, NoTurn)
        /\ UNCHANGED <<config, messages, probe>>

\* a run of main() on a click of "Clear Conversation": clear_conversation
MainClear ==
    /\ last.chat_input
    /\ ~client_error.set
    /\ messages' = <<>>
    /\ last' = Run("clear", FALSE, NoTurn)
    /\ UNCHANGED <<config, azure_client, demo_mode, client_error, probe>>

\* Asked with the history limit applied to the stored history
Asked_Limited(user_input) ==
    Append(SliceFrom(messages, Len(messages) - config.CONVERSATION_HISTORY_LIMIT),
           [role |-> "user", content |-> Strip(user_input)])

\* the history with the user's message appended
Asked(user_input) == Append(messages, [role |-> "user", content |-> Strip(user_input)])

\* Answered with an exception of the live client escaping the turn: the run
\* ends after the user's message was appended
Answered_Aborted(asked, text, sent) ==
    /\ messages' = IF sent.live # <<>> /\ sent.live[1].out.kind = "raise"
                   THEN asked
                   ELSE Append(asked, [role |-> "assistant", content |-> sent.reply])
    /\ azure_client' = sent.azure_client
    /\ demo_mode' = sent.demo_mode
    /\ last' = Run("turn", TRUE,
                   [input |-> text, reply |-> sent.reply, live |-> sent.live, demo |-> sent.demo])

\* the end of the turn: the reply is appended, the session is as the send left it
Answered(asked, text, sent) ==
    /\ messages' = Append(asked, [role |-> "assistant", content |-> sent.reply])
    /\ azure_client' = sent.azure_client
    /\ demo_mode' = sent.demo_mode
    /\ last' = Run("turn", TRUE,
                   [input |-> text, reply |-> sent.reply, live |-> sent.live, demo |-> sent.demo])

\* a run of main() on a submitted chat input: the user turn
MainSubmit ==
    /\ last.chat_input
    /\ ~client_error.set
    /\ Len(messages) < 2 * MaxTurns
    /\ \E user_input \in UserInputs, env \in TurnEnvs :
        /\ Answered(Asked(user_input), Strip(user_input),
                    send_message_to_ai(azure_client, demo_mode, Asked(user_input),
                                       Strip(user_input), env))
        /\ UNCHANGED <<config, client_error, probe>>

InitSession ==
    /\ config \in {c \in Configs : c.RAG_SEARCH_TYPE = "hybrid"}
    /\ Fresh

Next == MainRender \/ MainClear \/ MainSubmit

Spec == InitSession /\ [][Next]_vars

\* a direct call of AzureAIClient.send_message
CallSendMessage ==
    /\ probe = NoProbe
    /\ \E message \in Messages, history \in ClientHistories, env \in ClientEnvs :
        /\ probe' = [fn |-> "send_message", message |-> message, history |-> history,
                     env |-> env,
                     res |-> send_message(AzureAIClient(config), message, history, env)]
        /\ UNCHANGED <<config, session>>

\* a direct call of AzureAIClient._prepare_messages
CallPrepareMessages ==
    /\ probe = NoProbe
    /\ \E message \in Messages, history \in Histories :
        /\ probe' = [fn |-> "_prepare_messages", message |-> message, history |-> history,
                     res |-> _prepare_messages(config, message, history)]
        /\ UNCHANGED <<config, session>>

\* a direct call of DemoAzureAIClient.send_message
CallDemoSendMessage ==
    /\ probe = NoProbe
    /\ \E message \in DemoMessages, history \in ClientHistories,
          choice \in 1..Len(demo_responses) :
        /\ probe' = [fn |-> "demo_send_message", message |-> message, history |-> history,
                     choice |-> choice,
                     res |-> demo_send_message(message, history, choice)]
        /\ UNCHANGED <<config, session>>

InitClient ==
    /\ config \in {c \in Configs : c.RAG_SEARCH_TYPE = "hybrid"}
    /\ Fresh

NextClient == CallSendMessage \/ CallPrepareMessages \/ CallDemoSendMessage

SpecClient == InitClient /\ [][NextClient]_vars

----------------------------------------------------------------------------
(* Claims about the session (checked under Spec) *)

LiveFailed(call) ==
    IF call.out.kind = "raise" THEN TRUE ELSE ~call.out.value.success

\* the turn just run sent the message to the live client and that send failed
LiveSendFailed ==
    /\ last.what = "turn"
    /\ last.turn.live # <<>>
    /\ LiveFailed(last.turn.live[1])

\* the failing turn: switch, one retry of the same message, the stand-in's reply
SwitchedAndRetriedOnce ==
    LiveSendFailed =>
        /\ azure_client = "demo"
        /\ demo_mode = "on"
        /\ Len(last.turn.live) = 1
        /\ Len(last.turn.demo) = 1
        /\ last.turn.demo[1].message = last.turn.input
        /\ last.turn.demo[1].out.kind = "return"
        /\ last.turn.reply = last.turn.demo[1].out.value.content
        /\ messages[Len(messages)] = [role |-> "assistant", content |-> last.turn.reply]

\* a step from a session in demo mode: the mode stays, no live call is made
StaysOffline ==
    demo_mode = "on" =>
        /\ demo_mode' = "on"
        /\ azure_client' = "demo"
        /\ last'.turn.live = <<>>

\* C2: when a send on the live client fails during a turn the session switches
\* to the offline stand-in, the same message is retried exactly once on the
\* stand-in within the turn and the stand-in's reply is what the turn returns;
\* once demo_mode is true it never becomes false again and the live client is
\* never called again.
C2_FallbackIsOneWay == [](SwitchedAndRetriedOnce) /\ [][StaysOffline]_vars

\* a later turn of a session that started live, served by the stand-in alone
C2_Witness ==
    /\ last.what = "turn"
    /\ ~client_error.set
    /\ demo_mode = "on"
    /\ azure_client = "demo"
    /\ last.turn.live = <<>>
    /\ Len(last.turn.demo) = 1
    /\ Len(messages) = 4

\* C3: if the initialization of the live client fails at session start the
\* stand-in is selected and the chat turn stays reachable: the run of main()
\* offers the chat input, so that a message sent is answered by the stand-in.
C3_ChatReachableAfterInitFailure ==
    client_error.set =>
        /\ azure_client = "demo"
        /\ demo_mode = "on"
        /\ last.chat_input

\* a user turn appends the user's message and then the reply to the stored
\* history, whose earlier entries are kept as they were
AppendedTurn ==
    last'.what = "turn" =>
        /\ Len(messages') = Len(messages) + 2
        /\ SubSeq(messages', 1, Len(messages)) = messages
        /\ messages'[Len(messages) + 1] = [role |-> "user", content |-> last'.turn.input]
        /\ messages'[Len(messages) + 2] = [role |-> "assistant", content |-> last'.turn.reply]

\* a run that is neither a turn nor a clear leaves the stored history alone
KeptOtherwise == last'.what \notin {"turn", "clear"} => messages' = messages

OnlyClearEmpties ==
    /\ last'.what = "clear" => messages' = <<>>
    /\ (messages # <<>> /\ Len(messages') < Len(messages)) => last'.what = "clear"

\* C11: the stored history is append-only within a turn: a completed user turn
\* on a history of length N yields length N+2, one user message followed by one
\* assistant message appended, the previous N entries unchanged; the history
\* limit applied at submission never removes or alters stored entries; only
\* clear_conversation empties the history.
C11_HistoryAppendOnly == [][AppendedTurn /\ KeptOtherwise /\ OnlyClearEmpties]_vars

\* a second turn whose submission was cut to a limit below the stored length
C11_Witness ==
    /\ last.what = "turn"
    /\ Len(messages) = 4
    /\ config.CONVERSATION_HISTORY_LIMIT = 1
    /\ last.turn.live # <<>>
    /\ last.turn.live[1].submitted # <<>>
    /\ Len(last.turn.live[1].submitted[1]) = 3

Assistants(msgs) == Cardinality({i \in 1..Len(msgs) : msgs[i].role = "assistant"})

\* the reply of the turn is the live client's content, the stand-in's content
\* or the apology, and it is the last entry of the stored history
TurnAnswered ==
    last.what = "turn" =>
        /\ Len(messages) >= 2
        /\ messages[Len(messages) - 1] = [role |-> "user", content |-> last.turn.input]
        /\ messages[Len(messages)] = [role |-> "assistant", content |-> last.turn.reply]
        /\ \/ /\ last.turn.live # <<>>
              /\ ~LiveFailed(last.turn.live[1])
              /\ last.turn.demo = <<>>
              /\ last.turn.reply = last.turn.live[1].out.value.content
           \/ /\ last.turn.demo # <<>>
              /\ last.turn.demo[1].out.kind = "return"
              /\ last.turn.reply = last.turn.demo[1].out.value.content
           \/ /\ last.turn.reply # <<>>
              /\ last.turn.reply[1] = ApologyPrefix

OneAssistantAppended ==
    last'.what = "turn" => Assistants(messages') = Assistants(messages) + 1

\* C12: every user turn ends with a text reply and exactly one assistant
\* message appended to the history, whatever fails in retrieval, in the live
\* completion call or in the retry on the stand-in: no exception escapes
\* send_message_to_ai.
C12_TurnAlwaysAnswers == [](TurnAnswered) /\ [][OneAssistantAppended]_vars

\* a turn in which the live client raised: the reply is stored all the same
C12_Witness ==
    /\ last.what = "turn"
    /\ last.turn.live # <<>>
    /\ last.turn.live[1].out.kind = "raise"
    /\ messages[Len(messages)].role = "assistant"
    /\ messages[Len(messages)].content = last.turn.reply
    /\ last.turn.reply # <<>>

\* the text of the last message of a submitted sequence
FinalText(submitted) == submitted[Len(submitted)].content

\* the request of a live call was built from the outcome of its retrieval
BuiltAfterRetrieval(call) ==
    (call.search # <<>> /\ call.submitted # <<>>) =>
        /\ call.search[1].out.kind = "return"
        /\ FinalText(call.submitted[1]) =
              IF call.search[1].out.value # <<>>
              THEN create_context_prompt(call.search[1].out.value, call.message)
              ELSE call.message

\* C13: each user turn triggers one sequential call chain: at most one
\* search_documents call, completed before the request to the hosted model is
\* submitted, and at most one request submitted to the hosted model; no second
\* retrieval or request is started within the turn (the retry after a failure
\* goes to the stand-in, which issues neither) and none is pending afterwards.
C13_OneCallChainPerTurn ==
    last.what = "turn" =>
        /\ Len(last.turn.live) <= 1
        /\ Len(last.turn.live) + Len(last.turn.demo) >= 1
        /\ \A i \in 1..Len(last.turn.live) :
              /\ Len(last.turn.live[i].search) <= 1
              /\ Len(last.turn.live[i].submitted) <= 1
              /\ last.turn.live[i].search # <<>> => last.turn.live[i].submitted # <<>>
              /\ BuiltAfterRetrieval(last.turn.live[i])
              /\ last.turn.live[i].out.kind \in {"return", "raise"}

\* a turn whose request failed after a retrieval that found documents
C13_Witness ==
    /\ last.what = "turn"
    /\ Len(last.turn.live) = 1
    /\ Len(last.turn.live[1].search) = 1
    /\ last.turn.live[1].search[1].out.value # <<>>
    /\ Len(last.turn.live[1].submitted) = 1
    /\ LiveFailed(last.turn.live[1])
    /\ Len(last.turn.demo) = 1

\* the turn just run submitted a request to the hosted model
Submitted ==
    /\ last.what = "turn"
    /\ last.turn.live # <<>>
    /\ last.turn.live[1].submitted # <<>>

\* the stored history as it was before the turn just run
PriorHistory == SubSeq(messages, 1, Len(messages) - 2)

IsSuffix(seq, of) ==
    /\ Len(seq) <= Len(of)
    /\ seq = SubSeq(of, Len(of) - Len(seq) + 1, Len(of))

\* C19: in every turn driven by the UI the current user message appears once
\* in the sequence submitted to the hosted model, as its last element: the
\* history passed to the completion client is the history of the prior turns,
\* so the sequence is system, trailing prior-turn history, current message.
C19_CurrentMessageOnce ==
    Submitted =>
        /\ last.turn.live[1].history = get_conversation_history(PriorHistory)
        /\ last.turn.live[1].submitted[1][1] = SystemMessage
        /\ IsSuffix(SubSeq(last.turn.live[1].submitted[1], 2,
                           Len(last.turn.live[1].submitted[1]) - 1),
                    get_conversation_history(PriorHistory))
        /\ last.turn.live[1].submitted[1][Len(last.turn.live[1].submitted[1])].role = "user"

\* C20: the switch from the live client to the stand-in happens only in a turn
\* in which a request was submitted to the hosted model and failed: a turn
\* whose input is rejected before any backend call (text that is empty after
\* trimming) leaves the session in live mode.
C20_SwitchOnlyAfterFailedRequest ==
    (last.what = "turn" /\ last.turn.live # <<>>) =>
        /\ (azure_client = "demo" \/ demo_mode = "on") =>
              /\ last.turn.live[1].submitted # <<>>
              /\ LiveFailed(last.turn.live[1])
        /\ last.turn.live[1].submitted = <<>> =>
              /\ azure_client = "live"
              /\ demo_mode = "off"

----------------------------------------------------------------------------
(* Claims about RAGService.search_documents (checked under SpecSearch) *)

SearchCalled == probe.fn = "search_documents"

SearchedIn(type) ==
    /\ SearchCalled
    /\ probe.rag.search_client
    /\ probe.rag.config.RAG_SEARCH_TYPE = type

TierOf(p) ==
    IF p.vector THEN "hybrid" ELSE IF p.query_type = "semantic" THEN "semantic" ELSE "simple"

TierRank(t) == CASE t = "hybrid" -> 1 [] t = "semantic" -> 2 [] OTHER -> 3

Tiers(calls) == [i \in 1..Len(calls) |-> TierOf(calls[i])]

Attempts(calls, tier) == Cardinality({i \in 1..Len(calls) : TierOf(calls[i]) = tier})

CallFailed(i) == ~probe.env.search[i].ok

\* the plain full-text search was issued and failed
FinalTierFailed ==
    \E i \in 1..Len(probe.res.calls) : TierOf(probe.res.calls[i]) = "simple" /\ CallFailed(i)

NoCallSucceeded == \A i \in 1..Len(probe.res.calls) : CallFailed(i)

\* C4 (as stated): in hybrid mode every tier is attempted at most once per
\* call, and when the plain full-text tier fails the call returns [].
C4_EachTierOnce ==
    SearchedIn("hybrid") =>
        /\ \A t \in {"hybrid", "semantic", "simple"} : Attempts(probe.res.calls, t) <= 1
        /\ FinalTierFailed => probe.res.out = Return(<<>>)

\* C4 (amended): in hybrid mode the combined tier and the plain full-text tier
\* are attempted at most once per call and the semantic-only tier at most
\* twice - twice exactly when no query vector was obtained and the first
\* (then already semantic-only) call failed; at most three search calls and one
\* embedding call are issued, and when the plain tier fails the call returns [].
C4_TierAttemptsBounded ==
    SearchedIn("hybrid") =>
        /\ Attempts(probe.res.calls, "hybrid") <= 1
        /\ Attempts(probe.res.calls, "simple") <= 1
        /\ Attempts(probe.res.calls, "semantic") <= 2
        /\ Attempts(probe.res.calls, "semantic") = 2
              <=> (probe.env.embed # "vector" /\ CallFailed(1))
        /\ Len(probe.res.calls) <= 3
        /\ probe.res.embeds = 1
        /\ FinalTierFailed => probe.res.out = Return(<<>>)

C4_Witness ==
    /\ SearchedIn("hybrid")
    /\ probe.env.embed = "raise"
    /\ Tiers(probe.res.calls) = <<"semantic", "semantic", "simple">>
    /\ FinalTierFailed
    /\ probe.res.out = Return(<<>>)

\* tier t had failed before the i-th search call was issued (the combined tier
\* fails with its embedding or with its search call)
TierFailedBefore(t, i) ==
    \/ t = "hybrid" /\ probe.env.embed # "vector"
    \/ \E j \in 1..(i - 1) : TierOf(probe.res.calls[j]) = t /\ CallFailed(j)

TierOrderKept ==
    \A i \in 1..Len(probe.res.calls) :
        /\ \A j \in 1..(i - 1) :
              /\ CallFailed(j)
              /\ TierRank(TierOf(probe.res.calls[j])) <= TierRank(TierOf(probe.res.calls[i]))
        /\ \A t \in {"hybrid", "semantic", "simple"} :
              TierRank(t) < TierRank(TierOf(probe.res.calls[i])) => TierFailedBefore(t, i)

\* a non-empty result is the shaped hits of the first call that succeeded,
\* which is the last call issued
FromFirstSuccess ==
    probe.res.out.value # <<>> =>
        LET n == Len(probe.res.calls)
        IN  /\ n >= 1
            /\ ~CallFailed(n)
            /\ \A j \in 1..(n - 1) : CallFailed(j)
            /\ probe.res.out.value =
                  [i \in 1..Len(probe.env.search[n].hits) |-> Shape(probe.env.search[n].hits[i])]

\* the empty result is caused by a failure, not by a search that found nothing
FailureCausedEmpty ==
    /\ probe.res.out.value = <<>>
    /\ (NoCallSucceeded \/ ~probe.env.iter)

AllTiersFailed ==
    /\ NoCallSucceeded
    /\ FinalTierFailed
    /\ TierFailedBefore("hybrid", Len(probe.res.calls) + 1)
    /\ TierFailedBefore("semantic", Len(probe.res.calls) + 1)

\* C5 (as stated): hybrid mode degrades in the order hybrid-with-vector,
\* semantic-only, plain-text; a later tier is attempted only after every
\* earlier tier failed, the documents come from the first tier that succeeds,
\* and a failure-caused empty result occurs only when all tiers failed.
C5_EmptyOnlyWhenAllTiersFailed ==
    SearchedIn("hybrid") =>
        /\ TierOrderKept
        /\ FromFirstSuccess
        /\ FailureCausedEmpty => AllTiersFailed

\* C5 (amended): as stated, except that a failure-caused empty result occurs
\* only when all tiers failed or when iterating the results of the tier that
\* succeeded failed.
C5_TierOrder ==
    SearchedIn("hybrid") =>
        /\ TierOrderKept
        /\ FromFirstSuccess
        /\ FailureCausedEmpty =>
              \/ AllTiersFailed
              \/ ~NoCallSucceeded /\ ~probe.env.iter

C5_Witness ==
    /\ SearchedIn("hybrid")
    /\ probe.env.embed = "vector"
    /\ Tiers(probe.res.calls) = <<"hybrid", "semantic", "simple">>
    /\ ~CallFailed(3)
    /\ probe.res.out.value # <<>>
    /\ probe.env.search[3].hits # probe.env.search[1].hits

\* C6: search_documents never raises; it returns a list, which is empty when
\* no search client exists or when a failure is not recovered by a fallback.
C6_SearchNeverRaises ==
    SearchCalled =>
        /\ probe.res.out.kind = "return"
        /\ ~probe.rag.search_client => probe.res.out.value = <<>> /\ probe.res.calls = <<>>
        /\ (NoCallSucceeded \/ ~probe.env.iter) => probe.res.out.value = <<>>

C6_Witness ==
    /\ SearchCalled
    /\ probe.rag.search_client
    /\ ~CallFailed(1)
    /\ probe.env.search[1].hits # <<>>
    /\ ~probe.env.iter
    /\ probe.res.out = Return(<<>>)

\* C7: with search type "semantic" one semantic search is issued and, when it
\* fails, exactly one plain search follows; with a type other than "hybrid" or
\* "semantic" exactly one plain search is issued, and its failure gives [].
C7_SemanticAndPlainFallbacks ==
    /\ SearchedIn("semantic") =>
          Tiers(probe.res.calls) =
              IF CallFailed(1) THEN <<"semantic", "simple">> ELSE <<"semantic">>
    /\ (SearchCalled /\ probe.rag.search_client
          /\ probe.rag.config.RAG_SEARCH_TYPE \notin {"hybrid", "semantic"}) =>
          /\ Tiers(probe.res.calls) = <<"simple">>
          /\ CallFailed(1) => probe.res.out = Return(<<>>)

C7_Witness ==
    /\ SearchedIn("semantic")
    /\ CallFailed(1)
    /\ ~CallFailed(2)
    /\ probe.env.iter
    /\ Tiers(probe.res.calls) = <<"semantic", "simple">>
    /\ probe.res.out.value # <<>>

----------------------------------------------------------------------------
(* Claims about AzureAIClient (checked under SpecClient) *)

Sent == probe.fn = "send_message"

Blank(message) == message = <<>> \/ Strip(message) = <<>>

\* the raw text of the exception the completion attempt ended with
RawError ==
    IF probe.env.completion.kind = "raise" THEN probe.env.completion.text
    ELSE <<"list index out of range">>

AttemptFailed ==
    /\ Sent
    /\ ~Blank(probe.message)
    /\ (probe.env.completion.kind = "raise" \/ probe.env.completion.choices = 0)

\* C1 (as stated): send_message never raises to its caller, for every message
\* text (empty or whitespace-only text included) and every history.
C1_NeverRaises ==
    Sent => probe.res.out.kind = "return"

\* C1 (amended): send_message raises to its caller exactly when the message is
\* empty or whitespace-only (ValueError "Message cannot be empty", before any
\* backend call); for every other message every failure is returned as a
\* result with success=false.
C1_RaisesOnlyOnBlankMessage ==
    Sent =>
        /\ probe.res.out.kind = "raise" <=> Blank(probe.message)
        /\ Blank(probe.message) =>
              /\ probe.res.out = Raise(<<"Message cannot be empty">>)
              /\ probe.res.search = <<>>
              /\ probe.res.submitted = <<>>
        /\ AttemptFailed =>
              /\ probe.res.out.kind = "return"
              /\ probe.res.out.value.success = FALSE
        /\ (~Blank(probe.message) /\ ~AttemptFailed) => probe.res.out.value.success = TRUE

C1_Witness ==
    /\ Sent
    /\ ~Blank(probe.message)
    /\ probe.env.completion.kind = "raise"
    /\ probe.res.out.kind = "return"
    /\ probe.res.out.value.success = FALSE

Failed ==
    /\ Sent
    /\ probe.res.out.kind = "return"
    /\ probe.res.out.value.success = FALSE

\* C8: every result of the live client with success=false has a non-empty
\* error string and a content that is the apology followed by the error text,
\* for every raised error (an exception with an empty message included).
C8_FailureCarriesError ==
    Failed =>
        /\ probe.res.out.value.error # <<>>
        /\ probe.res.out.value.content = <<ApologyPrefix>> \o probe.res.out.value.error

IsAuth(e) == Contains(e, "401") \/ Contains(Lower(e), "unauthorized")

IsNotFound(e) == Contains(e, "404") \/ Contains(Lower(e), "not found")

IsRateLimit(e) == Contains(e, "429") \/ Contains(Lower(e), "rate limit")

IsTimeout(e) == Contains(Lower(e), "timeout")

\* C9 (as stated): a raw error text containing "401" is classified as
\* authentication failure, one containing "429" as rate-limit, one containing
\* "timeout" as timeout, any other text as generic (the raw text), also when
\* the text holds several markers or "404"/"not found".
C9_MarkerDecidesClass ==
    Failed =>
        /\ Contains(RawError, "401") => probe.res.out.value.error = AuthFailed
        /\ Contains(RawError, "429") => probe.res.out.value.error = RateLimited
        /\ Contains(Lower(RawError), "timeout") => probe.res.out.value.error = TimedOut
        /\ (~Contains(RawError, "401") /\ ~Contains(RawError, "429")
              /\ ~Contains(Lower(RawError), "timeout")) => probe.res.out.value.error = RawError

\* C9 (amended): the classes are tested in the fixed order authentication
\* ("401" or "unauthorized"), not-found ("404" or "not found"), rate-limit
\* ("429" or "rate limit"), timeout ("timeout"), and the first that matches
\* decides; a text matching none is generic and is surfaced as it is. The word
\* markers are matched without regard to case.
C9_FirstMarkerInOrderDecides ==
    Failed =>
        probe.res.out.value.error =
            CASE IsAuth(RawError) -> AuthFailed
              [] ~IsAuth(RawError) /\ IsNotFound(RawError) -> DeploymentNotFound(config)
              [] ~IsAuth(RawError) /\ ~IsNotFound(RawError) /\ IsRateLimit(RawError) -> RateLimited
              [] ~IsAuth(RawError) /\ ~IsNotFound(RawError) /\ ~IsRateLimit(RawError)
                    /\ IsTimeout(RawError) -> TimedOut
              [] OTHER -> RawError

C9_Witness ==
    /\ Failed
    /\ Contains(RawError, "429")
    /\ Contains(RawError, "404")
    /\ probe.res.out.value.error = DeploymentNotFound(config)

Prepared == probe.fn = "_prepare_messages"

\* C10: for every history and every history limit N >= 0 the sequence built by
\* _prepare_messages starts with the one system message, ends with the one
\* user message holding the text, and the history segment between them has
\* length at most N and is the last min(N, len(history)) history entries in
\* their order.
C10_HistorySegmentBounded ==
    Prepared =>
        LET out == probe.res
            N == config.CONVERSATION_HISTORY_LIMIT
            h == probe.history
            segment == SubSeq(out, 2, Len(out) - 1)
        IN  /\ Len(out) >= 2
            /\ out[1] = SystemMessage
            /\ out[Len(out)] = [role |-> "user", content |-> probe.message]
            /\ \A i \in 2..Len(out) : out[i].role # "system"
            /\ Len(segment) <= N
            /\ segment = SubSeq(h, Len(h) - Min(N, Len(h)) + 1, Len(h))

\* the documents the retrieval of the call handed back
Retrieved ==
    IF probe.res.search # <<>> /\ probe.res.search[1].out.kind = "return"
    THEN probe.res.search[1].out.value
    ELSE <<>>

\* C14: RAG enhancement never fails the completion: when retrieval is
\* available and returns at least one document the text sent as the final user
\* message is the prompt built from those documents and the original message;
\* when retrieval is unavailable, returns no documents or fails, the text sent
\* is the original message unchanged; the request is submitted in every case.
C14_EnhancementNeverFailsCompletion ==
    (Sent /\ ~Blank(probe.message)) =>
        /\ Len(probe.res.submitted) = 1
        /\ Len(probe.res.search) = (IF is_available(RAGService(config)) THEN 1 ELSE 0)
        /\ probe.res.submitted[1][Len(probe.res.submitted[1])].role = "user"
        /\ probe.res.submitted[1][Len(probe.res.submitted[1])].content =
              IF is_available(RAGService(config)) /\ Retrieved # <<>>
              THEN create_context_prompt(Retrieved, probe.message)
              ELSE probe.message

\* documents were found and the prompt built from them was sent
C14_Witness ==
    /\ Sent
    /\ ~Blank(probe.message)
    /\ is_available(RAGService(config))
    /\ Len(Retrieved) = 1
    /\ Len(probe.res.submitted) = 1
    /\ probe.res.submitted[1][Len(probe.res.submitted[1])].content # probe.message
    /\ Contains(probe.res.submitted[1][Len(probe.res.submitted[1])].content, "manual.pdf")

----------------------------------------------------------------------------
(* Claims about the prompt and the content of documents (checked under SpecSearch) *)

Prompted == probe.fn = "create_context_prompt"

\* C15 (as stated): for every user query create_context_prompt called with an
\* empty document list returns exactly the query text, with no prefix, suffix
\* or wrapping.
C15_EmptyDocsBareQuery ==
    (Prompted /\ probe.documents = <<>>) => probe.res = probe.user_query

\* C15 (amended): for every user query create_context_prompt called with an
\* empty document list returns the text "User query: " followed by the query
\* text and nothing else: no context block and no instructions, but never the
\* bare query.
C15_EmptyDocsPrefixedQuery ==
    (Prompted /\ probe.documents = <<>>) =>
        /\ probe.res = <<"User query: ">> \o probe.user_query
        /\ probe.res # probe.user_query
        /\ ~Contains(probe.res, "CONTEXT:")

C15_Witness ==
    /\ Prompted
    /\ probe.documents = <<>>
    /\ probe.user_query = <<"question">>
    /\ probe.res = <<"User query: ", "question">>

\* the places of a prompt where a source label starts
LabelsAt(prompt) == {p \in 1..Len(prompt) : prompt[p] = "[Source "}

\* the number of the label starting at p, counted from the start of the prompt
LabelNumber(prompt, p) == Cardinality({q \in LabelsAt(prompt) : q <= p})

\* the name a document is labelled with
LabelName(doc, i) ==
    IF Has(doc.metadata, "source")
    THEN Str(Get(doc.metadata, "source"))
    ELSE <<"Document ", ToString(i)>>

\* the first characters of a content, ContentLimit of them at most
Truncated(content) ==
    [k \in 1..(IF Len(content) > ContentLimit THEN ContentLimit ELSE Len(content)) |-> content[k]]

\* label i, the truncated content of the document and the line end after it
LabelledBlock(doc, i) ==
    <<"[Source ", ToString(i), ": ">> \o LabelName(doc, i) \o <<"]", "\n">>
    \o Truncated(doc.content) \o <<"\n">>

\* the block of document i stands at p and is followed by the next label or
\* by the user's question
BlockAt(prompt, p, doc, i, n) ==
    /\ p + Len(LabelledBlock(doc, i)) <= Len(prompt)
    /\ SubSeq(prompt, p, p + Len(LabelledBlock(doc, i)) - 1) = LabelledBlock(doc, i)
    /\ IF i < n
       THEN /\ prompt[p + Len(LabelledBlock(doc, i))] = "\n"
            /\ prompt[p + Len(LabelledBlock(doc, i)) + 1] = "[Source "
       ELSE prompt[p + Len(LabelledBlock(doc, i))] = "USER QUESTION: "

\* C16: for every non-empty document list the prompt built by
\* create_context_prompt holds exactly one "[Source i: ...]" label per document,
\* numbered from 1 in input order, named by the document's metadata 'source'
\* when present and "Document i" otherwise, each followed by the document's
\* content cut to its first 2000 characters at most.
C16_OneLabelPerDocument ==
    (Prompted /\ probe.documents # <<>>) =>
        /\ Cardinality(LabelsAt(probe.res)) = Len(probe.documents)
        /\ \A p \in LabelsAt(probe.res) :
              BlockAt(probe.res, p, probe.documents[LabelNumber(probe.res, p)],
                      LabelNumber(probe.res, p), Len(probe.documents))
        /\ \A i \in 1..Len(probe.documents) : Len(Truncated(probe.documents[i].content)) <= ContentLimit

\* a document longer than the limit, without a source, ahead of one with a source
C16_Witness ==
    /\ Prompted
    /\ Len(probe.documents) = 2
    /\ Len(probe.documents[1].content) > ContentLimit
    /\ Cardinality({p \in 1..Len(probe.res) : probe.res[p] = "x"}) = ContentLimit
    /\ Contains(probe.res, "Document ")
    /\ Contains(probe.res, "manual.pdf")

Extracted == probe.fn = "_extract_content"

Sentinel == <<"No content available">>

\* the content fields of a hit that hold something, by their rank in the
\* order content, text, body, description, summary
FilledContentFields(hit) ==
    {i \in 1..5 : HasTruthy(hit, <<"content", "text", "body", "description", "summary">>[i])}

\* the string-valued fields of a hit whose name does not start with '@'
PlainStringFields(hit) ==
    {i \in 1..Len(hit) : hit[i].v.t = "str" /\ ~StartsWithAt(hit[i].k)}

\* the content follows the rule: first filled content field, else chunk with
\* its title, else the string fields, else the sentinel
ContentByRule(hit, content) ==
    /\ content # <<>>
    /\ FilledContentFields(hit) # {} =>
          \E i \in FilledContentFields(hit) :
              /\ \A j \in FilledContentFields(hit) : i <= j
              /\ content = Str(Get(hit, <<"content", "text", "body", "description", "summary">>[i]))
    /\ (FilledContentFields(hit) = {} /\ HasTruthy(hit, "chunk")) =>
          content = (IF HasTruthy(hit, "title")
                     THEN <<"Title: ">> \o Str(Get(hit, "title")) \o <<" | ">>
                     ELSE <<>>) \o Str(Get(hit, "chunk"))
    /\ (FilledContentFields(hit) = {} /\ ~HasTruthy(hit, "chunk") /\ PlainStringFields(hit) # {}) =>
          /\ content # Sentinel
          /\ \A i \in PlainStringFields(hit) : Contains(content, hit[i].k)
          /\ \A i \in 1..Len(hit) : StartsWithAt(hit[i].k) => ~Contains(content, hit[i].k)
    /\ (FilledContentFields(hit) = {} /\ ~HasTruthy(hit, "chunk") /\ PlainStringFields(hit) = {}) =>
          content = Sentinel

\* the raw hits the documents of the search call were shaped from
ShapedFrom == probe.env.search[Len(probe.res.calls)].hits

\* C17: every document in a list returned by search_documents has non-empty
\* content, for every shape of raw hit: the content is the first non-empty
\* field among content, text, body, description, summary; else 'chunk'
\* (prefixed by 'title' when present); else the concatenation of the
\* string-valued fields whose name does not start with '@'; else the sentinel
\* "No content available".
C17_ContentNeverEmpty ==
    /\ Extracted => ContentByRule(probe.hit, probe.res)
    /\ (SearchCalled /\ probe.res.out.value # <<>>) =>
          /\ Len(probe.res.out.value) = Len(ShapedFrom)
          /\ \A i \in 1..Len(probe.res.out.value) :
                ContentByRule(ShapedFrom[i], probe.res.out.value[i].content)

\* a search returned a document made from a hit with no text at all
C17_Witness ==
    /\ SearchCalled
    /\ Len(probe.res.out.value) = 2
    /\ probe.res.out.value[1].content = <<"Title: ", "Catalog", " | ", "chunk">>
    /\ probe.res.out.value[2].content = Sentinel

----------------------------------------------------------------------------
(* Claims about DemoAzureAIClient (checked under SpecClient) *)

DemoCalled == probe.fn = "demo_send_message"

Greeting ==
    <<"Hello! ", "I'm your demo AI assistant. Deploy a model in Azure AI Foundry to unlock real AI conversations!">>

\* the canned reply inside a content: what stands between the banner and the hint
SelectedReply(content) == SubSeq(content, 2, Len(content) - 1)

\* C18: for every input text and history the offline stand-in returns
\* success=true and usage.total_tokens equal to the length of the input text
\* plus the length of the canned reply it selected; for an input containing
\* "hello" or "hi" the selected reply is the greeting and the content holds it.
C18_DemoAlwaysSucceeds ==
    DemoCalled =>
        /\ probe.res.kind = "return"
        /\ probe.res.value.success = TRUE
        /\ probe.res.value.content[1] = "DEMO MODE: "
        /\ probe.res.value.content[Len(probe.res.value.content)] = "Next Step: ..."
        /\ probe.res.value.usage.total_tokens =
              Len(probe.message) + Len(SelectedReply(probe.res.value.content))
        /\ (Contains(probe.message, "hello") \/ Contains(probe.message, "hi")) =>
              SelectedReply(probe.res.value.content) = Greeting

\* "this" holds "hi": the greeting is selected
C18_Witness ==
    /\ DemoCalled
    /\ probe.message = <<"this">>
    /\ probe.history # <<>>
    /\ SelectedReply(probe.res.value.content) = Greeting
    /\ probe.res.value.usage.total_tokens = 3

====
